---- MODULE Spec2Model ----
(***************************************************************************)
(* cfdns: a single-pass dynamic-DNS client (src/main.rs).  One run of main *)
(* validates its arguments, fetches the zone's DNS records, fetches the    *)
(* caller's public IP, selects the "A" record of the given name and        *)
(* conditionally PUTs an updated copy of it.                               *)
(*                                                                         *)
(* Strings that are only compared for equality (names, ids, zones) are TLA *)
(* strings.  Strings whose inner structure matters (the IP lookup body,    *)
(* the record content it is compared with, the PUT response body that is   *)
(* searched for a substring) are sequences of symbols.                     *)
(***************************************************************************)
EXTENDS Integers, Sequences, FiniteSets, TLC

\* ---------------------------------------------------------------- bounds
\* Longest record list the provider holds.
MaxRecords == 2
\* Longest body (in symbols) the IP lookup service returns.
MaxBody == 2
\* Longest body (in symbols) the provider answers a PUT with.
MaxResp == 3
\* Number of successive invocations of the program (TwoRunSpec only).
MaxRuns == 2

\* ---------------------------------------------------------------- values
\* Option<T>
None == [some |-> FALSE]
Some(x) == [some |-> TRUE, val |-> x]

\* Symbols of an IP string; "\n" and " " are whitespace.
IpChars == {"1", "9", "\n"}
IsWhitespace(c) == c \in {"\n", " ", "\t", "\r"}

SeqsUpTo(S, n) == UNION {[1..k -> S] : k \in 0..n}

\* Bodies the IP lookup service may return.
IpBodies == SeqsUpTo(IpChars, MaxBody)

\* Symbols of a PUT response body.  The searched literal success":true is the
\* two-symbol string NeedleSuccess.
RespSyms == {"success\":", "true", "false"}
NeedleSuccess == <<"success\":", "true">>
RespBodies == SeqsUpTo(RespSyms, MaxResp)

\* Command-line values and the environment's credential.
ArgNames == {"", "home", "Home"}
ArgZones == {"", "z1"}
NoToken == None
Tokens == {NoToken, Some("tok")}

\* ---------------------------------------------------------------- Record
\* struct Meta
DefaultMeta ==
    [auto_added |-> FALSE, managed_by_apps |-> FALSE,
     managed_by_argo_tunnel |-> FALSE, source |-> "primary",
     email_routing |-> None, read_only |-> Some(FALSE)]

\* struct Record: the i-th record of a zone.  The provider assigns the id; the
\* other attributes vary with the position so that records differ in them.
MkRecord(i, name, type, content) ==
    [id |-> i, zone_id |-> "z1", zone_name |-> "example.com",
     name |-> name, type_field |-> type, ip_addr |-> content,
     proxiable |-> (i % 2 = 1), proxied |-> (i % 2 = 0), ttl |-> i,
     locked |-> FALSE, meta |-> DefaultMeta,
     comment |-> IF i % 2 = 1 THEN None ELSE Some("note"),
     tags |-> <<>>, created_on |-> "t0", modified_on |-> "t0",
     priority |-> IF i % 2 = 1 THEN Some(10) ELSE None]

RecordNames == {"home", "Home"}
RecordTypes == {"A", "AAAA"}
RecordContents == {<<"1">>, <<"9">>}
RecordShapes == RecordNames \X RecordTypes \X RecordContents

\* Every record list of at most MaxRecords records.
RecordLists ==
    {[i \in DOMAIN s |-> MkRecord(i, s[i][1], s[i][2], s[i][3])] :
        s \in SeqsUpTo(RecordShapes, MaxRecords)}

\* ---------------------------------------------------------------- serde
\* JSON values of optional fields: null, or the value.
JNull == [null |-> TRUE]
JVal(x) == [null |-> FALSE, val |-> x]
opt_to_json(o) == IF o.some THEN JVal(o.val) ELSE JNull
json_to_opt(j) == IF j.null THEN None ELSE Some(j.val)

\* #[derive(Serialize)] for Meta: the JSON object, keyed by the wire names.
serialize_meta(m) ==
    [auto_added |-> m.auto_added, managed_by_apps |-> m.managed_by_apps,
     managed_by_argo_tunnel |-> m.managed_by_argo_tunnel, source |-> m.source,
     email_routing |-> opt_to_json(m.email_routing),
     read_only |-> opt_to_json(m.read_only)]

\* #[derive(Deserialize)] for Meta.
deserialize_meta(j) ==
    [auto_added |-> j.auto_added, managed_by_apps |-> j.managed_by_apps,
     managed_by_argo_tunnel |-> j.managed_by_argo_tunnel, source |-> j.source,
     email_routing |-> json_to_opt(j.email_routing),
     read_only |-> json_to_opt(j.read_only)]

\* #[derive(Serialize)] for Record: type_field goes out as "type", ip_addr as
\* "content"; None goes out as null.
serialize_record(r) ==
    [id |-> r.id, zone_id |-> r.zone_id, zone_name |-> r.zone_name,
     name |-> r.name, type |-> r.type_field, content |-> r.ip_addr,
     proxiable |-> r.proxiable, proxied |-> r.proxied, ttl |-> r.ttl,
     locked |-> r.locked, meta |-> serialize_meta(r.meta),
     comment |-> opt_to_json(r.comment), tags |-> r.tags,
     created_on |-> r.created_on, modified_on |-> r.modified_on,
     priority |-> opt_to_json(r.priority)]

\* #[derive(Deserialize)] for Record.
deserialize_record(j) ==
    [id |-> j.id, zone_id |-> j.zone_id, zone_name |-> j.zone_name,
     name |-> j.name, type_field |-> j.type, ip_addr |-> j.content,
     proxiable |-> j.proxiable, proxied |-> j.proxied, ttl |-> j.ttl,
     locked |-> j.locked, meta |-> deserialize_meta(j.meta),
     comment |-> json_to_opt(j.comment), tags |-> j.tags,
     created_on |-> j.created_on, modified_on |-> j.modified_on,
     priority |-> json_to_opt(j.priority)]

\* serde_json::to_string_pretty(&new_record)
to_string_pretty(r) == serialize_record(r)

\* The keys struct Response requires of the list envelope.
EnvelopeKeys == {"result", "success", "errors", "messages", "result_info"}

\* A response text of the records endpoint: whether it is JSON at all, the
\* top-level keys it holds, and its "result" array.
NoText == [syntax |-> "none", keys |-> {}, result |-> <<>>]
Garbage == [syntax |-> "garbage", keys |-> {}, result |-> <<>>]
Envelope(records) ==
    [syntax |-> "json", keys |-> EnvelopeKeys,
     result |-> [i \in DOMAIN records |-> serialize_record(records[i])]]
\* The provider's error answer: success, errors and messages only.
ErrorEnvelope ==
    [syntax |-> "json", keys |-> {"success", "errors", "messages"},
     result |-> <<>>]

\* Variant of from_str: a text that does not decode yields the default Response
\* (no records) instead of an error.
from_str_or_default(text) ==
    IF text.syntax = "json" /\ EnvelopeKeys \subseteq text.keys
    THEN [ok |-> TRUE,
          records |-> [i \in DOMAIN text.result |->
                          deserialize_record(text.result[i])]]
    ELSE [ok |-> TRUE, records |-> <<>>]

\* serde_json::from_str::<Response>: Err unless the text is JSON holding every
\* key of Response; Ok carries the decoded records.
from_str(text) ==
    IF text.syntax = "json" /\ EnvelopeKeys \subseteq text.keys
    THEN [ok |-> TRUE,
          records |-> [i \in DOMAIN text.result |->
                          deserialize_record(text.result[i])]]
    ELSE [ok |-> FALSE, records |-> <<>>]

\* ---------------------------------------------------------------- helpers
\* Variant of is_empty: only a missing value counts, "" passes.
is_empty_unchecked(s) == FALSE

\* String::is_empty
is_empty(s) == s = ""

\* The closure of find_subdomain_record.
qualifies(record, record_name) ==
    record.name = record_name /\ record.type_field = "A"

\* records.iter().find(..): the index of the first record the closure accepts,
\* scanning from index i; 0 stands for Option::None.
RECURSIVE find_from(_, _, _)
find_from(records, record_name, i) ==
    IF i > Len(records) THEN 0
    ELSE IF qualifies(records[i], record_name) THEN i
    ELSE find_from(records, record_name, i + 1)

\* Variant of find_subdomain_record: the last qualifying record (rfind).
RECURSIVE rfind_from(_, _, _)
rfind_from(records, record_name, i) ==
    IF i < 1 THEN 0
    ELSE IF qualifies(records[i], record_name) THEN i
    ELSE rfind_from(records, record_name, i - 1)

find_subdomain_record_last(records, record_name) ==
    rfind_from(records, record_name, Len(records))

find_subdomain_record(records, record_name) ==
    find_from(records, record_name, 1)

\* Variants of ip_matches: the update arm taken for every matched record, and
\* the update arm taken when the strings differ.
ip_matches_always(current_ip, record) == TRUE
ip_matches_inverted(current_ip, record) == current_ip # record.ip_addr

\* The match scrutinee of main: current_ip == record.ip_addr
ip_matches(current_ip, record) == current_ip = record.ip_addr

\* Variant of text: the body with surrounding whitespace removed (str::trim).
RECURSIVE trim_start(_)
trim_start(str) ==
    IF str # <<>> /\ IsWhitespace(Head(str)) THEN trim_start(Tail(str)) ELSE str
RECURSIVE trim_end(_)
trim_end(str) ==
    IF str # <<>> /\ IsWhitespace(str[Len(str)])
    THEN trim_end(SubSeq(str, 1, Len(str) - 1))
    ELSE str
text_trimmed(body) == trim_end(trim_start(body))

\* Response::text() of the IP lookup: the body as received.
text(body) == body

\* Variant of contains: the needle at the very start only (starts_with).
starts_with(haystack, needle) ==
    /\ Len(haystack) >= Len(needle)
    /\ SubSeq(haystack, 1, Len(needle)) = needle

\* str::contains
contains(haystack, needle) ==
    \E i \in 1..(Len(haystack) - Len(needle) + 1) :
        SubSeq(haystack, i, i + Len(needle) - 1) = needle

\* Variant of new_record: a record built anew from the identifying fields, the
\* rest left at Default::default().
new_record_from_default(record, current_ip) ==
    [id |-> record.id, zone_id |-> "", zone_name |-> "",
     name |-> record.name, type_field |-> record.type_field,
     ip_addr |-> current_ip, proxiable |-> FALSE, proxied |-> FALSE, ttl |-> 0,
     locked |-> FALSE,
     meta |-> [auto_added |-> FALSE, managed_by_apps |-> FALSE,
               managed_by_argo_tunnel |-> FALSE, source |-> "",
               email_routing |-> None, read_only |-> None],
     comment |-> None, tags |-> <<>>, created_on |-> "", modified_on |-> "",
     priority |-> None]

\* The copy update_record sends: record.clone() with ip_addr overwritten.
new_record(record, current_ip) == [record EXCEPT !.ip_addr = current_ip]

\* Request URLs.
records_url(zone) == <<"zones", zone, "dns_records">>
record_url(zone, record_id) == <<"zones", zone, "dns_records", record_id>>
ip_url == <<"whatismyip.akamai.com">>

NoPayload == [none |-> TRUE]

\* Variant of send: the request is sent again after the first attempt.
send_with_retry(reqs, r) == Append(Append(reqs, r), r)

\* RequestBuilder::send: the request goes out once.
send(reqs, r) == Append(reqs, r)

\* ---------------------------------------------------------------- state
VARIABLES
    pc,            \* where main stands: "start", "get_dns_records", "from_str",
                   \* "get_current_ip_addr", "reconcile", "update_record",
                   \* "done" (Ok(())) or "panic"
    args,          \* Args: [name, zone]
    CF_TOKEN,      \* the environment's CF_TOKEN: None when unset
    remote,        \* the provider's records of the zone
    ip_body,       \* the body the IP lookup service answers with
    records_text,  \* what get_dns_records returned
    res,           \* res.records
    current_ip,    \* what get_current_ip_addr returned
    matched,       \* result of find_subdomain_record: an index of res, 0 = None
    branch,        \* arm of the match in main taken by this run
    requests,      \* HTTP requests this run has sent, in order
    logs,          \* log lines of this run
    fatal,         \* the panic message, "" while none
    put_outcome,   \* "none", "send_err", "text_err" or "received"
    put_response,  \* the PUT response body when received
    run,           \* number of the current invocation
    prev_branch    \* arm taken by the latest earlier invocation that chose one

vars == <<pc, args, CF_TOKEN, remote, ip_body, records_text, res, current_ip,
          matched, branch, requests, logs, fatal, put_outcome, put_response,
          run, prev_branch>>

\* What a fresh process starts with.
FreshRun ==
    /\ pc = "start"
    /\ records_text = NoText
    /\ res = <<>>
    /\ current_ip = <<>>
    /\ matched = 0
    /\ branch = "none"
    /\ requests = <<>>
    /\ logs = <<>>
    /\ fatal = ""
    /\ put_outcome = "none"
    /\ put_response = <<>>

Init ==
    /\ FreshRun
    /\ args \in [name : ArgNames, zone : ArgZones]
    /\ CF_TOKEN \in Tokens
    /\ remote \in RecordLists
    /\ ip_body \in IpBodies
    /\ run = 1
    /\ prev_branch = "none"

\* ---------------------------------------------------------------- main
\* main, lines 173-180: the two argument checks.
ValidateArgs ==
    /\ pc = "start"
    /\ IF is_empty(args.name)
       THEN /\ logs' = Append(logs, "Record domain can not be empty!")
            /\ fatal' = "empty name"
            /\ pc' = "panic"
       ELSE IF is_empty(args.zone)
       THEN /\ logs' = Append(logs, "Zone can not be empty!")
            /\ fatal' = "empty zone"
            /\ pc' = "panic"
       ELSE /\ pc' = "get_dns_records"
            /\ UNCHANGED <<logs, fatal>>
    /\ UNCHANGED <<args, CF_TOKEN, remote, ip_body, records_text, res,
                   current_ip, matched, branch, requests, put_outcome,
                   put_response, run, prev_branch>>

\* get_dns_records: read CF_TOKEN, then one GET of the zone's records.  The
\* provider answers with its records, with an error object or with something
\* that is not JSON; or the request or the read of its body fails.
GetDnsRecords ==
    /\ pc = "get_dns_records"
    /\ IF CF_TOKEN = NoToken
       THEN /\ fatal' = "No CF_TOKEN set in env"
            /\ pc' = "panic"
            /\ UNCHANGED <<requests, records_text>>
       ELSE /\ requests' = send(requests,
                    [method |-> "GET", url |-> records_url(args.zone),
                     body |-> NoPayload])
            /\ \/ /\ fatal' = "could not send request to cloudflare api"
                  /\ pc' = "panic"
                  /\ UNCHANGED records_text
               \/ /\ fatal' = "could not retrieve text from cloudflare api response"
                  /\ pc' = "panic"
                  /\ UNCHANGED records_text
               \/ /\ records_text' \in {Envelope(remote), ErrorEnvelope, Garbage}
                  /\ pc' = "from_str"
                  /\ UNCHANGED fatal
    /\ UNCHANGED <<args, CF_TOKEN, remote, ip_body, res, current_ip, matched,
                   branch, logs, put_outcome, put_response, run, prev_branch>>

\* main, lines 186-191: decode the envelope or panic.
ParseResponse ==
    /\ pc = "from_str"
    /\ LET r == from_str(records_text) IN
       IF r.ok
       THEN /\ res' = r.records
            /\ logs' = Append(logs, "Fetched All DNS records from Cloudflare")
            /\ pc' = "get_current_ip_addr"
            /\ UNCHANGED fatal
       ELSE /\ fatal' = "Could not parse Cloudflare response JSON"
            /\ pc' = "panic"
            /\ UNCHANGED <<res, logs>>
    /\ UNCHANGED <<args, CF_TOKEN, remote, ip_body, records_text, current_ip,
                   matched, branch, requests, put_outcome, put_response, run,
                   prev_branch>>

\* get_current_ip_addr: one GET of the lookup service.
GetCurrentIpAddr ==
    /\ pc = "get_current_ip_addr"
    /\ requests' = send(requests,
            [method |-> "GET", url |-> ip_url, body |-> NoPayload])
    /\ \/ /\ fatal' = "could not send request to whatismyip api"
          /\ pc' = "panic"
          /\ UNCHANGED current_ip
       \/ /\ fatal' = "could not retrieve text from whatismyip api response"
          /\ pc' = "panic"
          /\ UNCHANGED current_ip
       \/ /\ current_ip' = text(ip_body)
          /\ pc' = "reconcile"
          /\ UNCHANGED fatal
    /\ UNCHANGED <<args, CF_TOKEN, remote, ip_body, records_text, res, matched,
                   branch, logs, put_outcome, put_response, run, prev_branch>>

\* main, lines 195-205: the match on find_subdomain_record and on the
\* comparison; the arms that do not call update_record return Ok(()).
Reconcile ==
    /\ pc = "reconcile"
    /\ LET m == find_subdomain_record(res, args.name) IN
       /\ matched' = m
       /\ IF m = 0
          THEN /\ branch' = "no_record"
               /\ logs' = Append(logs, "No record for subdomain found")
               /\ pc' = "done"
          ELSE IF ip_matches(current_ip, res[m])
          THEN /\ branch' = "update"
               /\ pc' = "update_record"
               /\ UNCHANGED logs
          ELSE /\ branch' = "in_sync"
               /\ logs' = Append(logs, "Nothing to update, DNS in sync")
               /\ pc' = "done"
    /\ UNCHANGED <<args, CF_TOKEN, remote, ip_body, records_text, res,
                   current_ip, requests, fatal, put_outcome, put_response, run,
                   prev_branch>>

\* What the provider holds once it has applied a PUT of payload to record_id.
apply_put(records, record_id, payload) ==
    [i \in DOMAIN records |->
        IF records[i].id = record_id
        THEN [deserialize_record(payload) EXCEPT !.modified_on = "t1"]
        ELSE records[i]]

\* update_record: read CF_TOKEN, build the payload, one PUT, classify the
\* response text; main then returns Ok(()).  The provider may or may not have
\* applied a PUT that went out.
UpdateRecord ==
    /\ pc = "update_record"
    /\ IF CF_TOKEN = NoToken
       THEN /\ fatal' = "No CF_TOKEN set in env"
            /\ pc' = "panic"
            /\ UNCHANGED <<requests, remote, logs, put_outcome, put_response>>
       ELSE LET record == res[matched]
                record_id == record.id
                payload == to_string_pretty(new_record(record, current_ip))
            IN
            /\ requests' = send(requests,
                    [method |-> "PUT", url |-> record_url(args.zone, record_id),
                     body |-> payload])
            /\ remote' \in {remote, apply_put(remote, record_id, payload)}
            /\ \/ /\ put_outcome' = "send_err"
                  /\ fatal' = "could not send request to cloudflare api"
                  /\ pc' = "panic"
                  /\ UNCHANGED <<logs, put_response>>
               \/ /\ put_outcome' = "text_err"
                  /\ fatal' = "could not get respose body"
                  /\ pc' = "panic"
                  /\ UNCHANGED <<logs, put_response>>
               \/ \E response \in RespBodies :
                  /\ put_outcome' = "received"
                  /\ put_response' = response
                  /\ logs' = Append(logs,
                        IF contains(response, NeedleSuccess)
                        THEN "Successfully updated DNS record"
                        ELSE "Record Update Failed, DNS not synced with actual ip!")
                  /\ pc' = "done"
                  /\ UNCHANGED fatal
    /\ UNCHANGED <<args, CF_TOKEN, ip_body, records_text, res, current_ip,
                   matched, branch, run, prev_branch>>

Next ==
    \/ ValidateArgs
    \/ GetDnsRecords
    \/ ParseResponse
    \/ GetCurrentIpAddr
    \/ Reconcile
    \/ UpdateRecord

Spec == Init /\ [][Next]_vars

\* Every call of the run returns or fails: the process keeps stepping until
\* main returns or panics.
FairSpec == Spec /\ WF_vars(Next)

\* ---------------------------------------------------------------- reruns
\* The scheduler invokes the program again once a run has ended: a fresh
\* process, with the same arguments and environment, against the same
\* provider and lookup service.
Rerun ==
    /\ pc \in {"done", "panic"}
    /\ run < MaxRuns
    /\ run' = run + 1
    /\ prev_branch' = IF branch # "none" THEN branch ELSE prev_branch
    /\ pc' = "start"
    /\ records_text' = NoText
    /\ res' = <<>>
    /\ current_ip' = <<>>
    /\ matched' = 0
    /\ branch' = "none"
    /\ requests' = <<>>
    /\ logs' = <<>>
    /\ fatal' = ""
    /\ put_outcome' = "none"
    /\ put_response' = <<>>
    /\ UNCHANGED <<args, CF_TOKEN, remote, ip_body>>

NextTwoRun ==
    \/ Next
    \/ Rerun

TwoRunSpec == Init /\ [][NextTwoRun]_vars

\* ---------------------------------------------------------------- find
\* find_subdomain_record on every record list and every name: main stands at
\* its match with res and args.name arbitrary.
InitFind ==
    /\ pc = "reconcile"
    /\ args \in [name : ArgNames, zone : {"z1"}]
    /\ CF_TOKEN = Some("tok")
    /\ remote \in RecordLists
    /\ ip_body \in IpBodies
    /\ records_text = Envelope(remote)
    /\ res = from_str(records_text).records
    /\ current_ip = text(ip_body)
    /\ matched = 0
    /\ branch = "none"
    /\ requests = <<>>
    /\ logs = <<>>
    /\ fatal = ""
    /\ put_outcome = "none"
    /\ put_response = <<>>
    /\ run = 1
    /\ prev_branch = "none"

NextFind == Reconcile

FindSpec == InitFind /\ [][NextFind]_vars

\* ---------------------------------------------------------------- claims
\* Vocabulary of the properties below.
Terminal == pc \in {"done", "panic"}
PutIndices == {i \in DOMAIN requests : requests[i].method = "PUT"}
NumPuts == Cardinality(PutIndices)
RecordsGet(zone) ==
    [method |-> "GET", url |-> <<"zones", zone, "dns_records">>,
     body |-> NoPayload]
IpGet == [method |-> "GET", url |-> <<"whatismyip.akamai.com">>, body |-> NoPayload]
LastLog == logs[Len(logs)]
\* The record the run is about: an "A" record of the given name exists in res.
Qualifies(i) == res[i].name = args.name /\ res[i].type_field = "A"

\* C1: the PUT is issued if and only if a record was matched and the resolved
\* IP string equals its content; in the two other arms no PUT is issued and
\* the run ends normally, its last act being the arm's log line.
C1_PutIffMatchedAndEqual ==
    (Terminal /\ branch # "none") =>
        /\ NumPuts = 1 <=> (matched # 0 /\ current_ip = res[matched].ip_addr)
        /\ NumPuts = 0 <=> (matched = 0 \/ current_ip # res[matched].ip_addr)
        /\ (matched = 0) =>
              /\ pc = "done"
              /\ requests = <<RecordsGet(args.zone), IpGet>>
              /\ LastLog = "No record for subdomain found"
        /\ (matched # 0 /\ current_ip # res[matched].ip_addr) =>
              /\ pc = "done"
              /\ requests = <<RecordsGet(args.zone), IpGet>>
              /\ LastLog = "Nothing to update, DNS in sync"

C1_Witness ==
    /\ pc = "done"
    /\ matched # 0
    /\ current_ip = res[matched].ip_addr
    /\ NumPuts = 1

\* C2: whenever an "A" record of the given name exists and the resolved IP (a
\* plain address) differs from its content, a run that ends normally has sent
\* an update PUT for it.
C2_UpdateWhenDiffer ==
    (/\ pc = "done"
     /\ matched # 0
     /\ current_ip \in RecordContents
     /\ current_ip # res[matched].ip_addr) =>
        NumPuts >= 1

\* C3: a run sends at most one PUT and chooses its arm at most once, it
\* reaches a terminal state, and from a terminal state no request follows.
C3_AtMostOnePutThenStop ==
    /\ [](NumPuts <= 1)
    /\ [][branch # "none" => branch' = branch]_vars
    /\ <>Terminal
    /\ [][Terminal => (pc' = pc /\ requests' = requests)]_vars

C3_Witness ==
    /\ Terminal
    /\ NumPuts = 1
    /\ Len(requests) = 3

\* C4: a failure of the records GET, of the decoding of its body, or of the
\* IP GET ends the run in a panic right there: the requests sent are exactly
\* those up to the failed one, each once, and no PUT among them.
C4_FailureIsFatal ==
    /\ (/\ put_outcome = "none"
        /\ fatal \in {"could not send request to cloudflare api",
                      "could not retrieve text from cloudflare api response"})
          => (pc = "panic" /\ requests = <<RecordsGet(args.zone)>>)
    /\ (records_text \in {Garbage, ErrorEnvelope} /\ pc # "from_str")
          => /\ pc = "panic"
             /\ fatal = "Could not parse Cloudflare response JSON"
             /\ requests = <<RecordsGet(args.zone)>>
    /\ fatal \in {"could not send request to whatismyip api",
                  "could not retrieve text from whatismyip api response"}
          => (pc = "panic" /\ requests = <<RecordsGet(args.zone), IpGet>>)
    /\ pc = "panic" => ~ENABLED Next

C4_Witness ==
    /\ pc = "panic"
    /\ records_text = Garbage
    /\ requests = <<RecordsGet(args.zone)>>

\* C5: with an empty record name, an empty zone or no CF_TOKEN the run never
\* sends a request and never ends normally; once past the checks it has
\* panicked.
C5_ConfigErrorBeforeNetwork ==
    (args.name = "" \/ args.zone = "" \/ CF_TOKEN = None) =>
        /\ requests = <<>>
        /\ pc \in {"start", "get_dns_records", "panic"}
        /\ (pc = "get_dns_records") => (args.name # "" /\ args.zone # "")

C5_Witness ==
    /\ pc = "panic"
    /\ args.name # ""
    /\ args.zone # ""
    /\ CF_TOKEN = None
    /\ fatal = "No CF_TOKEN set in env"

\* C6: the body of the PUT equals the record as the provider sent it in every
\* field but content, which is the current IP, and the PUT is addressed to the
\* fetched record's id within the given zone.
C6_PayloadIsCopyButContent ==
    \A i \in PutIndices :
        LET p == requests[i].body
            fetched == records_text.result[matched]
        IN  /\ p.content = current_ip
            /\ p.id = fetched.id
            /\ p.zone_id = fetched.zone_id
            /\ p.zone_name = fetched.zone_name
            /\ p.name = fetched.name
            /\ p.type = fetched.type
            /\ p.proxiable = fetched.proxiable
            /\ p.proxied = fetched.proxied
            /\ p.ttl = fetched.ttl
            /\ p.locked = fetched.locked
            /\ p.meta = fetched.meta
            /\ p.comment = fetched.comment
            /\ p.tags = fetched.tags
            /\ p.created_on = fetched.created_on
            /\ p.modified_on = fetched.modified_on
            /\ p.priority = fetched.priority
            /\ requests[i].url = <<"zones", args.zone, "dns_records", fetched.id>>

C6_Witness ==
    /\ NumPuts = 1
    /\ matched = 2
    /\ records_text.result[matched].comment # JNull
    /\ records_text.result[matched].priority = JNull

\* C7: find_subdomain_record returns the qualifying record of smallest index,
\* and None exactly when no record qualifies (so always on an empty list); the
\* list is left as it was.
C7_FirstQualifying ==
    (pc # "reconcile") =>
        /\ matched \in 0..Len(res)
        /\ matched = 0 <=> ~(\E i \in DOMAIN res : Qualifies(i))
        /\ matched # 0 =>
              (Qualifies(matched) /\ \A j \in 1..(matched - 1) : ~Qualifies(j))
        /\ res = <<>> => matched = 0
        /\ res = remote

C7_Witness ==
    /\ pc # "reconcile"
    /\ matched = 1
    /\ Len(res) >= 2
    /\ Qualifies(2)

\* C8 as stated: the string get_current_ip_addr returns has no leading or
\* trailing whitespace, so a body that is the matched record's content
\* followed by a newline is found equal to that content.
HasReturnedIp == pc \in {"reconcile", "update_record", "done"}
C8_ReturnsTrimmed ==
    HasReturnedIp =>
        /\ current_ip # <<>> =>
              (~IsWhitespace(current_ip[1])
                  /\ ~IsWhitespace(current_ip[Len(current_ip)]))
        /\ (branch # "none" /\ matched # 0
              /\ ip_body = Append(res[matched].ip_addr, "\n"))
              => branch = "update"

\* C8 amended: get_current_ip_addr returns the body exactly as received, so a
\* body that is the matched record's content followed by a newline is found
\* unequal to that content: the run takes the in-sync arm and sends no PUT.
C8_ReturnsBodyVerbatim ==
    HasReturnedIp =>
        /\ current_ip = ip_body
        /\ (branch # "none" /\ matched # 0
              /\ ip_body = Append(res[matched].ip_addr, "\n"))
              => (branch = "in_sync" /\ NumPuts = 0)

C8_Witness ==
    /\ pc = "done"
    /\ matched # 0
    /\ ip_body = Append(res[matched].ip_addr, "\n")
    /\ current_ip[Len(current_ip)] = "\n"

\* C9: once the PUT's response body has been received the run ends normally
\* whatever the body is, and it logs success exactly when the body holds
\* success":true somewhere.
C9_ReceivedResponseNeverFatal ==
    (put_outcome = "received") =>
        /\ pc = "done"
        /\ fatal = ""
        /\ LastLog \in {"Successfully updated DNS record",
                        "Record Update Failed, DNS not synced with actual ip!"}
        /\ LastLog = "Successfully updated DNS record" <=>
              \E i \in 1..(Len(put_response) - 1) :
                  put_response[i] = "success\":" /\ put_response[i + 1] = "true"

C9_Witness ==
    /\ put_outcome = "received"
    /\ Len(put_response) = 3
    /\ put_response[2] = "success\":"
    /\ put_response[3] = "true"
    /\ pc = "done"

\* C10: two successive runs against the same resolver and the same provider
\* take the same arm, also when the provider applied the first run's PUT.
C10_SameBranchTwice ==
    (branch # "none" /\ prev_branch # "none") => branch = prev_branch

C10_Witness ==
    /\ run = 2
    /\ prev_branch = "update"
    /\ branch = "update"
    /\ matched # 0
    /\ remote[matched].modified_on = "t1"

====
